---- MODULE Spec2Model ----
(***************************************************************************)
(* A model of SkShaper::shape (modules/skshaper/src/SkShaper_harfbuzz.cpp): *)
(* the three run iterators and their queue, the segment-and-shape loop,     *)
(* the line-break pass and the reorder-and-emit pass.                       *)
(*                                                                          *)
(* Pointers into the UTF-8 text are byte offsets from utf8.  Scalars are    *)
(* small integers.  Indices of runs and glyphs are 0-based as in the code;  *)
(* the sequences holding them are 1-based, hence the "+ 1" in accesses.     *)
(***************************************************************************)
EXTENDS Integers, Sequences, FiniteSets, TLC

\* ------------------------------------------------------------------ bounds
MaxLen == 3          \* code points in the input text
MaxShaped == 2       \* glyphs the shaping engine returns for one segment
MaxGlyphs == 3       \* glyphs in the runs handed to the layout passes
MaxWidth == 3        \* largest wrap width
MaxAdvance == 2      \* largest glyph advance
MaxWordsWidth == 15  \* largest wrap width for the text of words
MaxEmitGlyphs == 4   \* glyphs in the runs of the emit specification
WideWidth == 100     \* a wrap width no line reaches

\* ------------------------------------------------------ sequence helpers
RECURSIVE SumSeq(_)
SumSeq(s) == IF s = <<>> THEN 0 ELSE Head(s) + SumSeq(Tail(s))

Reverse(s) == [i \in 1..Len(s) |-> s[Len(s) + 1 - i]]

Min2(a, b) == IF a < b THEN a ELSE b
Max2(a, b) == IF a > b THEN a ELSE b

SeqsUpTo(S, n) == UNION {[1..m -> S] : m \in 0..n}

\* --------------------------------------------------------- the code points
\* The alphabet of the input: a Latin letter, a space, a Hebrew letter, a
\* combining mark, an emoji outside the BMP and a private-use code point.
CodePoints == {"A", "sp", "alef", "mark", "emoji", "pua"}

\* UTF-8 length of a code point.
Utf8Bytes(c) ==
    CASE c = "A" -> 1 [] c = "sp" -> 1 [] c = "alef" -> 2
      [] c = "mark" -> 2 [] c = "emoji" -> 4 [] c = "pua" -> 3

\* SkUTF::ToUTF16(u): the number of UTF-16 units of a code point.
ToUTF16(c) == IF c = "emoji" THEN 2 ELSE 1

\* hb_unicode_script(u)
hb_unicode_script(c) ==
    CASE c = "A" -> "LATIN" [] c = "sp" -> "COMMON" [] c = "alef" -> "HEBREW"
      [] c = "mark" -> "INHERITED" [] c = "emoji" -> "COMMON" [] c = "pua" -> "UNKNOWN"

\* The typefaces: the shaper's own, two the font manager can return, and null.
Typefaces == {"primary", "hebrewTf", "emojiTf"}
NullTf == "null"

\* SkTypeface::charsToGlyphs(&u, .., 1) != 0
charsToGlyphs(tf, c) ==
    CASE tf = "primary" -> c \in {"A", "sp", "mark"}
      [] tf = "hebrewTf" -> c \in {"alef", "sp"}
      [] tf = "emojiTf" -> c \in {"emoji"}

\* SkFontMgr::matchFamilyStyleCharacter: null when no typeface has the character.
matchFamilyStyleCharacter(c) ==
    CASE c = "alef" -> "hebrewTf"
      [] c = "emoji" -> "emojiTf"
      [] OTHER -> NullTf

\* create_hb_font(tf): null for a null typeface and for one whose stream
\* cannot be opened (the emoji typeface has no data).
create_hb_font(tf) ==
    IF tf = NullTf \/ tf = "emojiTf" THEN NullTf ELSE tf

\* SkFont::getMetrics of a run's font; ascent is negative.
Metrics(tf) ==
    CASE tf = "primary" -> [ascent |-> -2, descent |-> 1, leading |-> 0]
      [] tf = "hebrewTf" -> [ascent |-> -3, descent |-> 2, leading |-> 1]
      [] OTHER -> [ascent |-> -1, descent |-> 0, leading |-> 0]

\* static constexpr bool is_LTR(UBiDiLevel level)
is_LTR(level) == level % 2 = 0

\* ------------------------------------------------------------- variables
VARIABLES
    text,             \* the input, a sequence of code points
    levels,           \* ubidi's level of each code point
    breaks,           \* the byte offsets the break iterator reports
    width,            \* the wrap width
    point,            \* the caller's origin
    pc,               \* where shape() is
    bidi, script, font,            \* the three run iterators
    breakIterator,    \* ubrk_current of the break iterator
    utf8Start, utf8End,            \* the current segment
    ends,             \* history: every endOfCurrentRun() the segment loop read
    runs,             \* SkTArray<ShapedRun>
    widthSoFar, previousBreakValid, canAddBreakNow,
    previousBreak, glyphIterator,  \* ShapedRunGlyphIterator of the running pass
    lineStarts,       \* history: where the line-break pass started each line
    maxAscent, maxDescent, maxLeading, previousRunIndex, lineIndex,
    currentPoint,
    sink,             \* history: the newRunBuffer calls, with what was written
    result,           \* what shape() returned
    fBuffer,          \* SkShaper::Impl::fBuffer: the clusters of the items in it
    shaped,           \* what hb_shape has returned so far, by segment and font
    finished          \* history: the calls of shape() that are over

vars == <<text, levels, breaks, width, point, pc, bidi, script, font,
          breakIterator, utf8Start, utf8End, ends, runs,
          widthSoFar, previousBreakValid, canAddBreakNow,
          previousBreak, glyphIterator, lineStarts,
          maxAscent, maxDescent, maxLeading, previousRunIndex, lineIndex,
          currentPoint, sink, result, fBuffer, shaped, finished>>

\* What a call of shape() is given: its arguments and, with the shaper, the
\* calls made on it before.
inputVars == <<text, levels, breaks, width, point, finished>>
segVars == <<bidi, script, font, breakIterator, utf8Start, utf8End, ends,
             fBuffer, shaped>>
breakVars == <<widthSoFar, previousBreakValid, canAddBreakNow, lineStarts>>
emitVars == <<maxAscent, maxDescent, maxLeading, previousRunIndex, lineIndex,
              currentPoint, sink>>

\* ------------------------------------------------------ text and offsets
\* Byte offset at which code point i starts (i = Len + 1: the end).
RECURSIVE StartOf(_, _)
StartOf(t, i) == IF i <= 1 THEN 0 ELSE StartOf(t, i - 1) + Utf8Bytes(t[i - 1])

utf8BytesOf(t) == StartOf(t, Len(t) + 1)

\* UTF-16 index at which code point i starts.
RECURSIVE Start16(_, _)
Start16(t, i) == IF i <= 1 THEN 0 ELSE Start16(t, i - 1) + ToUTF16(t[i - 1])

\* ubidi_getLength
ubidi_getLength(t) == Start16(t, Len(t) + 1)

\* The index of the code point that starts at byte offset p.
CpAt(t, p) == CHOOSE i \in 1..Len(t) : StartOf(t, i) = p

\* ubidi_getLevelAt(pos): the level of the code point holding UTF-16 unit pos.
ubidi_getLevelAt(t, lv, pos) ==
    lv[CHOOSE i \in 1..Len(t) : Start16(t, i) <= pos /\ pos < Start16(t, i + 1)]

\* ubidi_setPara(bidi, utf16, n, level, ..): the level of each code point.  The
\* level argument is UBIDI_DEFAULT_LTR or UBIDI_DEFAULT_RTL: the paragraph level
\* is that of the first strong character, or the default when there is none.
\* Letters are strong, a combining mark takes the class of the character before
\* it, a space or an emoji takes the direction both its strong neighbours share
\* and the paragraph's otherwise.
BidiClass(c) ==
    CASE c = "alef" -> "R" [] c = "mark" -> "NSM" [] c = "sp" -> "N"
      [] c = "emoji" -> "N" [] OTHER -> "L"

ParagraphLevel(t, leftToRight) ==
    LET strong == {i \in 1..Len(t) : BidiClass(t[i]) \in {"L", "R"}}
    IN IF strong = {}
       THEN (IF leftToRight THEN 0 ELSE 1)
       ELSE LET first == CHOOSE i \in strong : \A j \in strong : i <= j
            IN IF BidiClass(t[first]) = "L" THEN 0 ELSE 1

RECURSIVE ClassAfterMarks(_, _, _)
ClassAfterMarks(t, i, sor) ==
    IF BidiClass(t[i]) # "NSM" THEN BidiClass(t[i])
    ELSE IF i = 1 THEN sor ELSE ClassAfterMarks(t, i - 1, sor)

ubidi_setPara(t, leftToRight) ==
    LET e == ParagraphLevel(t, leftToRight)
        dir == IF e % 2 = 0 THEN "L" ELSE "R"
        cls == [i \in 1..Len(t) |-> ClassAfterMarks(t, i, dir)]
        before(i) == LET s == {j \in 1..(i - 1) : cls[j] # "N"}
                     IN IF s = {} THEN dir
                        ELSE cls[CHOOSE j \in s : \A k \in s : k <= j]
        after(i) == LET s == {j \in (i + 1)..Len(t) : cls[j] # "N"}
                    IN IF s = {} THEN dir
                       ELSE cls[CHOOSE j \in s : \A k \in s : j <= k]
        res(i) == IF cls[i] # "N" THEN cls[i]
                  ELSE IF before(i) = after(i) THEN before(i) ELSE dir
    IN [i \in 1..Len(t) |-> IF res(i) = dir THEN e ELSE e + 1]

\* utf8_next(&ptr, end): the code point at ptr and the pointer after it.
utf8_next(t, ptr) ==
    LET i == CpAt(t, ptr)
    IN [u |-> t[i], next |-> ptr + Utf8Bytes(t[i])]

\* --------------------------------------------------------- BiDiRunIterator
BiDiInit == [end |-> 0, pos |-> 0, level |-> 0]

RECURSIVE BiDiExtend(_, _, _)
BiDiExtend(t, lv, it) ==
    IF it.pos < ubidi_getLength(t)
       /\ ubidi_getLevelAt(t, lv, it.pos) = it.level
    THEN LET n == utf8_next(t, it.end)
         IN BiDiExtend(t, lv, [it EXCEPT !.end = n.next,
                                         !.pos = it.pos + ToUTF16(n.u)])
    ELSE it

BiDiConsume(t, lv, it) ==
    LET n == utf8_next(t, it.end)
    IN BiDiExtend(t, lv, [end |-> n.next,
                          pos |-> it.pos + ToUTF16(n.u),
                          level |-> ubidi_getLevelAt(t, lv, it.pos)])

\* atEnd() with the length of the text in bytes for its length in UTF-16.
BiDiAtEndInBytes(t, it) == it.pos = utf8BytesOf(t)

BiDiAtEnd(t, it) == it.pos = ubidi_getLength(t)

\* ------------------------------------------------------- ScriptRunIterator
ScriptInit == [cur |-> 0, script |-> "UNKNOWN"]

\* The loop of consume() that replaces the current script when it is INHERITED
\* and not when it is COMMON.
RECURSIVE ScriptExtendInheritedOnly(_, _)
ScriptExtendInheritedOnly(t, it) ==
    IF it.cur < utf8BytesOf(t)
    THEN LET n == utf8_next(t, it.cur)
             s == hb_unicode_script(n.u)
         IN IF s # it.script
            THEN IF it.script = "INHERITED"
                 THEN ScriptExtendInheritedOnly(t, [cur |-> n.next, script |-> s])
                 ELSE IF s \in {"INHERITED", "COMMON"}
                      THEN ScriptExtendInheritedOnly(t, [it EXCEPT !.cur = n.next])
                      ELSE it
            ELSE ScriptExtendInheritedOnly(t, [it EXCEPT !.cur = n.next])
    ELSE it

RECURSIVE ScriptExtend(_, _)
ScriptExtend(t, it) ==
    IF it.cur < utf8BytesOf(t)
    THEN LET n == utf8_next(t, it.cur)
             s == hb_unicode_script(n.u)
         IN IF s # it.script
            THEN IF it.script \in {"INHERITED", "COMMON"}
                 THEN ScriptExtend(t, [cur |-> n.next, script |-> s])
                 ELSE IF s \in {"INHERITED", "COMMON"}
                      THEN ScriptExtend(t, [it EXCEPT !.cur = n.next])
                      ELSE it
            ELSE ScriptExtend(t, [it EXCEPT !.cur = n.next])
    ELSE it

ScriptConsume(t, it) ==
    LET n == utf8_next(t, it.cur)
        r == ScriptExtend(t, [cur |-> n.next, script |-> hb_unicode_script(n.u)])
    IN IF r.script = "INHERITED" THEN [r EXCEPT !.script = "COMMON"] ELSE r

ScriptAtEnd(t, it) == it.cur = utf8BytesOf(t)

\* --------------------------------------------------------- FontRunIterator
\* fallback: fFallbackTypeface; current: fCurrentTypeface; hb: fCurrentHBFont;
\* ub: the iterator called charsToGlyphs through a null fCurrentTypeface;
\* crashed: the process died of it.
FontInit == [cur |-> 0, fallback |-> NullTf, current |-> "primary",
             hb |-> create_hb_font("primary"), ub |-> FALSE, crashed |-> FALSE]

\* The selection of the typeface for the first code point of a run.
FontSelect(it, u) ==
    IF charsToGlyphs("primary", u)
    THEN [it EXCEPT !.current = "primary", !.hb = create_hb_font("primary")]
    ELSE IF it.fallback # NullTf /\ charsToGlyphs(it.fallback, u)
         THEN [it EXCEPT !.current = it.fallback, !.hb = create_hb_font(it.fallback)]
         ELSE LET tf == matchFamilyStyleCharacter(u)
              IN [it EXCEPT !.fallback = tf, !.current = tf, !.hb = create_hb_font(tf)]

\* The loop without its first test: a fallback goes on over the code points it
\* has, the ones the primary has as well.
RECURSIVE FontExtendKeepFallback(_, _)
FontExtendKeepFallback(t, it) ==
    IF it.cur < utf8BytesOf(t)
    THEN LET n == utf8_next(t, it.cur)
             go == [it EXCEPT !.cur = n.next]
         IN IF it.current = NullTf
            THEN {[it EXCEPT !.ub = TRUE, !.crashed = TRUE]}
                 \cup {[it EXCEPT !.ub = TRUE]}
                 \cup FontExtendKeepFallback(t, [go EXCEPT !.ub = TRUE])
            ELSE IF ~charsToGlyphs(it.current, n.u)
                 THEN {it}
                 ELSE FontExtendKeepFallback(t, go)
    ELSE {it}

\* The loop over the code points that follow.  A call through a null
\* fCurrentTypeface is undefined: the process dies, or the call yields either
\* answer.  The result is the set of states the loop can end in.
RECURSIVE FontExtend(_, _)
FontExtend(t, it) ==
    IF it.cur < utf8BytesOf(t)
    THEN LET n == utf8_next(t, it.cur)
             go == [it EXCEPT !.cur = n.next]
         IN IF it.current # "primary" /\ charsToGlyphs("primary", n.u)
            THEN {it}
            ELSE IF it.current = NullTf
                 THEN {[it EXCEPT !.ub = TRUE, !.crashed = TRUE]}
                      \cup {[it EXCEPT !.ub = TRUE]}
                      \cup FontExtend(t, [go EXCEPT !.ub = TRUE])
                 ELSE IF ~charsToGlyphs(it.current, n.u)
                      THEN {it}
                      ELSE FontExtend(t, go)
    ELSE {it}

FontConsume(t, it) ==
    LET n == utf8_next(t, it.cur)
    IN FontExtend(t, [FontSelect(it, n.u) EXCEPT !.cur = n.next])

FontAtEnd(t, it) == it.cur = utf8BytesOf(t)

\* -------------------------------------------------------- RunIteratorQueue
\* endOfCurrentRun() of the queue: the least end of the three iterators.
endOfCurrentRun(b, s, f) == Min2(b.end, Min2(s.cur, f.cur))

\* atEnd() of an iterator peek() can return: one whose end is the least.
PeekAtEnd(t, b, s, f) ==
    LET least == endOfCurrentRun(b, s, f)
    IN  (IF b.end = least THEN {BiDiAtEnd(t, b)} ELSE {})
        \cup (IF s.cur = least THEN {ScriptAtEnd(t, s)} ELSE {})
        \cup (IF f.cur = least THEN {FontAtEnd(t, f)} ELSE {})

\* advanceRuns() with "<" for "<=": no iterator is consumed.
advanceRunsStrict(t, lv, b, s, f) ==
    IF TRUE \in PeekAtEnd(t, b, s, f)
    THEN {[ok |-> FALSE, bidi |-> b, script |-> s, font |-> f]}
    ELSE {[ok |-> TRUE, bidi |-> b, script |-> s, font |-> f]}

\* advanceRuns() that pops one iterator, the one on top, and no other with the
\* same end.
advanceRunsTopOnly(t, lv, b, s, f) ==
    LET leastEnd == endOfCurrentRun(b, s, f)
    IN IF TRUE \in PeekAtEnd(t, b, s, f)
       THEN {[ok |-> FALSE, bidi |-> b, script |-> s, font |-> f]}
       ELSE IF b.end = leastEnd
            THEN {[ok |-> TRUE, bidi |-> BiDiConsume(t, lv, b), script |-> s,
                   font |-> f]}
            ELSE IF s.cur = leastEnd
                 THEN {[ok |-> TRUE, bidi |-> b, script |-> ScriptConsume(t, s),
                        font |-> f]}
                 ELSE {[ok |-> TRUE, bidi |-> b, script |-> s, font |-> nf] :
                          nf \in FontConsume(t, f)}

\* advanceRuns(): every iterator whose end is at or before the least end is
\* popped, consumed and inserted again.  The set of results: ok is the value
\* returned.
advanceRuns(t, lv, b, s, f) ==
    LET leastEnd == endOfCurrentRun(b, s, f)
        stay == IF TRUE \in PeekAtEnd(t, b, s, f)
                THEN {[ok |-> FALSE, bidi |-> b, script |-> s, font |-> f]}
                ELSE {}
        go == IF FALSE \in PeekAtEnd(t, b, s, f)
              THEN {[ok |-> TRUE,
                     bidi |-> IF b.end <= leastEnd THEN BiDiConsume(t, lv, b) ELSE b,
                     script |-> IF s.cur <= leastEnd THEN ScriptConsume(t, s) ELSE s,
                     font |-> nf] :
                        nf \in IF f.cur <= leastEnd THEN FontConsume(t, f) ELSE {f}}
              ELSE {}
    IN stay \cup go

\* ---------------------------------------------------------- break iterator
\* ubrk: the line-break boundaries of the bound text, as byte offsets.  A break
\* is allowed after a space and around an emoji, never before a space or a
\* combining mark; the start and the end of the text are boundaries.
LineBreaksOf(t) ==
    {0, utf8BytesOf(t)} \cup
    {StartOf(t, i) : i \in {j \in 2..Len(t) :
        /\ t[j] \notin {"sp", "mark"}
        /\ (t[j - 1] \in {"sp", "emoji"} \/ t[j] = "emoji")}}

UBRK_DONE == -1

\* ubrk_next: the position after the move and the value returned.
ubrk_next(brks, cur) ==
    LET later == {b \in brks : b > cur}
    IN IF later = {}
       THEN [cur |-> cur, ret |-> UBRK_DONE]
       ELSE LET n == CHOOSE b \in later : \A c \in later : b <= c
            IN [cur |-> n, ret |-> n]

\* The seek with "<=" for "<": the iterator goes past the boundary at the
\* glyph's cluster.
RECURSIVE BreakSeekPast(_, _, _)
BreakSeekPast(brks, st, glyphCluster) ==
    IF st.ret # UBRK_DONE /\ st.ret <= glyphCluster
    THEN BreakSeekPast(brks, ubrk_next(brks, st.cur), glyphCluster)
    ELSE st

\* while (breakIteratorCurrent != UBRK_DONE && breakIteratorCurrent < glyphCluster)
RECURSIVE BreakSeek(_, _, _)
BreakSeek(brks, st, glyphCluster) ==
    IF st.ret # UBRK_DONE /\ st.ret < glyphCluster
    THEN BreakSeek(brks, ubrk_next(brks, st.cur), glyphCluster)
    ELSE st

\* The loop that sets fMayLineBreakBefore on the glyphs of a new run, from
\* glyph i on: the glyphs and the break iterator's position after it.
RECURSIVE MarkMayBreak(_, _, _, _, _, _)
MarkMayBreak(brks, glyphs, i, clusterOffset, previousCluster, cur) ==
    IF i > Len(glyphs)
    THEN [glyphs |-> glyphs, cur |-> cur]
    ELSE LET glyphCluster == glyphs[i].cluster + clusterOffset
             st == BreakSeek(brks, [cur |-> cur, ret |-> cur], glyphCluster)
             may == glyphs[i].cluster # previousCluster /\ st.ret = glyphCluster
         IN MarkMayBreak(brks, [glyphs EXCEPT ![i].may = may], i + 1,
                         clusterOffset, glyphs[i].cluster, st.cur)

\* ----------------------------------------------------------- shaping engine
\* The code points of [from, to) with the clusters the segment loop gives them:
\* their byte offsets from the start of the segment.
SegmentClusters(t, from, to) ==
    {StartOf(t, i) - from : i \in {j \in 1..Len(t) :
                                     from <= StartOf(t, j) /\ StartOf(t, j) < to}}

\* hb_buffer_add(buffer, u, cluster) for every code point of [from, to): the
\* clusters, in the order they are added.
RECURSIVE AddToBuffer(_, _, _, _)
AddToBuffer(t, from, utf8Current, to) ==
    IF utf8Current < to
    THEN <<utf8Current - from>>
         \o AddToBuffer(t, from, utf8_next(t, utf8Current).next, to)
    ELSE <<>>

\* hb_shape on the buffer: any glyphs whose clusters are clusters of the buffer,
\* monotone (HB_BUFFER_CLUSTER_LEVEL_MONOTONE_CHARACTERS): rising for a
\* left-to-right buffer, falling for a right-to-left one.
hb_shape(buffer, ltr) ==
    LET cl == {buffer[i] : i \in 1..Len(buffer)}
        rising == {q \in SeqsUpTo(cl, MaxShaped) :
                      \A i \in 1..Len(q) - 1 : q[i] <= q[i + 1]}
    IN {IF ltr THEN q ELSE Reverse(q) : q \in rising}

\* hb_shape is a function: for a segment and a font it has shaped before it
\* returns what it returned then.
ShapedAs(from, to, hb) == {m \in shaped : m.from = from /\ m.to = to /\ m.hb = hb}

ShapeResults(from, to, hb, buffer, ltr) ==
    IF ShapedAs(from, to, hb) = {}
    THEN hb_shape(buffer, ltr)
    ELSE {m.buffer : m \in ShapedAs(from, to, hb)}

\* The glyph shape() stores for info[i], pos[i]: the advance is one unit, the
\* offset zero; the flags are set later.
MakeGlyph(t, from, cluster) ==
    [id |-> t[CpAt(t, from + cluster)], cluster |-> cluster,
     offset |-> [x |-> 0, y |-> 0], advance |-> [x |-> 1, y |-> 0],
     may |-> FALSE, must |-> FALSE]

\* The buffer left as hb_shape returned it.
LogicalOrderNoReverse(buffer, ltr) == buffer

\* if (direction == HB_DIRECTION_RTL) hb_buffer_reverse(buffer)
LogicalOrder(buffer, ltr) == IF ltr THEN buffer ELSE Reverse(buffer)

\* The ShapedRun built with utf8 for utf8Start.
MakeRunFromZero(t, from, to, tf, level, buffer) ==
    LET info == LogicalOrder(buffer, is_LTR(level))
        glyphs == [i \in 1..Len(info) |-> MakeGlyph(t, from, info[i])]
    IN [utf8Start |-> 0, utf8End |-> to, numGlyphs |-> Len(info),
        font |-> tf, level |-> level, glyphs |-> glyphs,
        advance |-> [x |-> SumSeq([i \in 1..Len(glyphs) |-> glyphs[i].advance.x]),
                     y |-> 0]]

\* The ShapedRun built from a shaped buffer.
MakeRun(t, from, to, tf, level, buffer) ==
    LET info == LogicalOrder(buffer, is_LTR(level))
        glyphs == [i \in 1..Len(info) |-> MakeGlyph(t, from, info[i])]
    IN [utf8Start |-> from, utf8End |-> to, numGlyphs |-> Len(info),
        font |-> tf, level |-> level, glyphs |-> glyphs,
        advance |-> [x |-> SumSeq([i \in 1..Len(glyphs) |-> glyphs[i].advance.x]),
                     y |-> 0]]

\* ------------------------------------------------- shape(): the segment loop
\* The locals of the two later passes, as they are when shape() starts.
LayoutIdle ==
    /\ widthSoFar = 0 /\ previousBreakValid = FALSE /\ canAddBreakNow = FALSE
    /\ previousBreak = [run |-> 0, glyph |-> 0]
    /\ glyphIterator = [run |-> 0, glyph |-> 0]
    /\ lineStarts = <<>>
    /\ maxAscent = 0 /\ maxDescent = 0 /\ maxLeading = 0
    /\ previousRunIndex = -1 /\ lineIndex = 0
    /\ currentPoint = point /\ sink = <<>>
    /\ result = "none"

\* shape() up to the segment loop: the iterators are made and inserted, the
\* text is bound to the break iterator, utf8End = utf8.
ShapeEntry ==
    /\ pc = "segment"
    /\ bidi = BiDiInit /\ script = ScriptInit /\ font = FontInit
    /\ breakIterator = 0
    /\ utf8Start = -1 /\ utf8End = 0
    /\ ends = <<>>
    /\ runs = <<>>
    /\ fBuffer = <<>> /\ shaped = {} /\ finished = <<>>
    /\ LayoutIdle

\* while (runSegmenter.advanceRuns()): the call returns false, the loop ends and
\* the line-break pass starts.
SegmentsDone ==
    /\ pc = "segment"
    /\ \E r \in advanceRuns(text, levels, bidi, script, font) :
         /\ ~r.ok
         /\ pc' = "linebreak"
    /\ UNCHANGED <<inputVars, segVars, runs, breakVars, previousBreak, glyphIterator,
                   emitVars, result>>

\* An iterator's consume() went through a null typeface and the process died.
SegmentCrash ==
    /\ pc = "segment"
    /\ \E r \in advanceRuns(text, levels, bidi, script, font) :
         /\ r.ok /\ r.font.crashed
         /\ font' = r.font
         /\ pc' = "crashed"
    /\ UNCHANGED <<inputVars, bidi, script, breakIterator, utf8Start, utf8End, ends,
                   fBuffer, shaped,
                   runs, breakVars, previousBreak, glyphIterator, emitVars, result>>

\* while (runSegmenter.advanceRuns()): the call returns true; utf8Start and
\* utf8End are moved to the new segment and the buffer is filled.
SegmentAdvance ==
    /\ pc = "segment"
    /\ \E r \in advanceRuns(text, levels, bidi, script, font) :
         /\ r.ok /\ ~r.font.crashed
         /\ bidi' = r.bidi /\ script' = r.script /\ font' = r.font
         /\ utf8Start' = utf8End
         /\ utf8End' = endOfCurrentRun(r.bidi, r.script, r.font)
         /\ ends' = Append(ends, endOfCurrentRun(r.bidi, r.script, r.font))
         /\ fBuffer' = fBuffer \o AddToBuffer(text, utf8End, utf8End,
                                              endOfCurrentRun(r.bidi, r.script, r.font))
    /\ pc' = "shape"
    /\ UNCHANGED <<inputVars, breakIterator, runs, breakVars, previousBreak,
                   glyphIterator, emitVars, result, shaped>>

\* What a turn of the segment loop leaves alone when it ends early.
turnVars == <<inputVars, bidi, script, font, breakIterator, utf8Start, utf8End,
              ends, runs, breakVars, previousBreak, glyphIterator, emitVars>>

\* if (!font->currentHBFont()) continue; autoClearBuffer clears the buffer as
\* the turn ends.
ShapeNoFont ==
    /\ pc = "shape"
    /\ font.hb = NullTf
    /\ pc' = "segment"
    /\ fBuffer' = <<>>
    /\ UNCHANGED <<turnVars, result, shaped>>

\* The turn without "if (len == 0) continue;": a run of no glyphs is stored.
ShapeStoreEmptyRun ==
    /\ pc = "shape"
    /\ font.hb # NullTf
    /\ <<>> \in ShapeResults(utf8Start, utf8End, font.hb, fBuffer, is_LTR(bidi.level))
    /\ shaped' = shaped \cup {[from |-> utf8Start, to |-> utf8End, hb |-> font.hb,
                               buffer |-> <<>>]}
    /\ runs' = Append(runs, MakeRun(text, utf8Start, utf8End, font.current,
                                    bidi.level, <<>>))
    /\ pc' = "segment"
    /\ fBuffer' = <<>>
    /\ UNCHANGED <<inputVars, bidi, script, font, breakIterator, utf8Start, utf8End,
                   ends, breakVars, previousBreak, glyphIterator, emitVars, result>>

\* hb_shape leaves the buffer empty: if (len == 0) continue;
ShapeNoGlyphs ==
    /\ pc = "shape"
    /\ font.hb # NullTf
    /\ <<>> \in ShapeResults(utf8Start, utf8End, font.hb, fBuffer, is_LTR(bidi.level))
    /\ shaped' = shaped \cup {[from |-> utf8Start, to |-> utf8End, hb |-> font.hb,
                               buffer |-> <<>>]}
    /\ pc' = "segment"
    /\ fBuffer' = <<>>
    /\ UNCHANGED <<turnVars, result>>

\* The rest of the turn: the shaped segment is stored as a run and the break
\* opportunities of its glyphs are set.
ShapeRun ==
    /\ pc = "shape"
    /\ font.hb # NullTf
    /\ \E buffer \in ShapeResults(utf8Start, utf8End, font.hb, fBuffer,
                                  is_LTR(bidi.level)) :
         /\ Len(buffer) # 0
         /\ shaped' = shaped \cup {[from |-> utf8Start, to |-> utf8End,
                                    hb |-> font.hb, buffer |-> buffer]}
         /\ LET run == MakeRun(text, utf8Start, utf8End, font.current,
                               bidi.level, buffer)
                marked == MarkMayBreak(breaks, run.glyphs, 1, utf8Start, -1,
                                       breakIterator)
            IN /\ runs' = Append(runs, [run EXCEPT !.glyphs = marked.glyphs])
               /\ breakIterator' = marked.cur
    /\ pc' = "segment"
    /\ fBuffer' = <<>>
    /\ UNCHANGED <<inputVars, bidi, script, font, utf8Start, utf8End, ends,
                   breakVars, previousBreak, glyphIterator, emitVars, result>>

NextSeg == SegmentsDone \/ SegmentCrash \/ SegmentAdvance
           \/ ShapeNoFont \/ ShapeNoGlyphs \/ ShapeRun

\* The calls of shape() on a text of at most MaxLen code points, in either
\* direction.
InitSeg ==
    /\ text \in SeqsUpTo(CodePoints, MaxLen)
    /\ \E leftToRight \in BOOLEAN : levels = ubidi_setPara(text, leftToRight)
    /\ breaks = LineBreaksOf(text)
    /\ width = MaxWidth
    /\ point = [x |-> 0, y |-> 0]
    /\ ShapeEntry

SpecSeg == InitSeg /\ [][NextSeg]_vars

\* --------------------------------------------------- ShapedRunGlyphIterator
CursorStart == [run |-> 0, glyph |-> 0]

\* current(): the glyph under the cursor, none when the cursor is past the runs.
HasCurrent(rs, it) == it.run < Len(rs)
current(rs, it) == rs[it.run + 1].glyphs[it.glyph + 1]

\* next(): the cursor moved to the following glyph.
next(rs, it) ==
    IF it.glyph + 1 = rs[it.run + 1].numGlyphs
    THEN [run |-> it.run + 1, glyph |-> 0]
    ELSE [it EXCEPT !.glyph = it.glyph + 1]

\* ------------------------------------------------ shape(): line-break pass
\* if (canAddBreakNow && glyph->fMayLineBreakBefore): the candidate break
\* after the first statement of a turn.
BreakValidNow ==
    previousBreakValid \/ (canAddBreakNow /\ current(runs, glyphIterator).may)
\* The candidate break that is set once on a line and kept: the first
\* opportunity of the line, not the latest.
BreakNowFirstOnLine ==
    IF previousBreakValid THEN previousBreak
    ELSE IF canAddBreakNow /\ current(runs, glyphIterator).may
         THEN glyphIterator ELSE previousBreak

BreakNow ==
    IF canAddBreakNow /\ current(runs, glyphIterator).may
    THEN glyphIterator ELSE previousBreak

\* The test with widthSoFar left out.
FitsAlone == current(runs, glyphIterator).advance.x < width

\* if (widthSoFar + glyphWidth < width)
Fits == widthSoFar + current(runs, glyphIterator).advance.x < width

\* The glyph fits: it is added to the line.
LineAccept ==
    /\ pc = "linebreak"
    /\ HasCurrent(runs, glyphIterator)
    /\ Fits
    /\ previousBreakValid' = BreakValidNow
    /\ previousBreak' = BreakNow
    /\ widthSoFar' = widthSoFar + current(runs, glyphIterator).advance.x
    /\ glyphIterator' = next(runs, glyphIterator)
    /\ canAddBreakNow' = TRUE
    /\ UNCHANGED <<inputVars, pc, segVars, runs, lineStarts, emitVars, result>>

\* The end of a turn that marks the glyph that did not fit, not the one the
\* cursor goes back to.
BreakLineAtMarkOverflow(to) ==
    /\ glyphIterator' = to
    /\ previousBreak' = to
    /\ runs' = [runs EXCEPT
                  ![glyphIterator.run + 1].glyphs[glyphIterator.glyph + 1].must = TRUE]
    /\ lineStarts' = Append(lineStarts, to)
    /\ widthSoFar' = 0
    /\ previousBreakValid' = FALSE
    /\ canAddBreakNow' = FALSE
    /\ UNCHANGED <<inputVars, pc, segVars, emitVars, result>>

\* The end of a turn that breaks the line at cursor to: the glyph there, if
\* any, must start a line.
BreakLineAt(to) ==
    /\ glyphIterator' = to
    /\ previousBreak' = to
    /\ runs' = IF HasCurrent(runs, to)
               THEN [runs EXCEPT ![to.run + 1].glyphs[to.glyph + 1].must = TRUE]
               ELSE runs
    /\ lineStarts' = Append(lineStarts, to)
    /\ widthSoFar' = 0
    /\ previousBreakValid' = FALSE
    /\ canAddBreakNow' = FALSE
    /\ UNCHANGED <<inputVars, pc, segVars, emitVars, result>>

\* The emergency break without glyphIterator.next(): the line is broken at
\* the glyph that does not fit and the cursor stays on it.
LineBreakAfterStay ==
    /\ pc = "linebreak"
    /\ HasCurrent(runs, glyphIterator)
    /\ ~Fits
    /\ widthSoFar = 0
    /\ glyphIterator' = glyphIterator
    /\ previousBreak' = glyphIterator
    /\ runs' = [runs EXCEPT
                  ![glyphIterator.run + 1].glyphs[glyphIterator.glyph + 1].must = TRUE]
    /\ lineStarts' = IF lineStarts # <<>> /\ lineStarts[Len(lineStarts)] = glyphIterator
                     THEN lineStarts ELSE Append(lineStarts, glyphIterator)
    /\ widthSoFar' = 0
    /\ previousBreakValid' = FALSE
    /\ canAddBreakNow' = FALSE
    /\ UNCHANGED <<inputVars, pc, segVars, emitVars, result>>

\* The glyph does not fit and widthSoFar == 0: break after this glyph.
LineBreakAfter ==
    /\ pc = "linebreak"
    /\ HasCurrent(runs, glyphIterator)
    /\ ~Fits
    /\ widthSoFar = 0
    /\ BreakLineAt(next(runs, glyphIterator))

\* The glyph does not fit and no break opportunity was seen: break before it.
LineBreakBefore ==
    /\ pc = "linebreak"
    /\ HasCurrent(runs, glyphIterator)
    /\ ~Fits
    /\ widthSoFar # 0
    /\ ~BreakValidNow
    /\ BreakLineAt(glyphIterator)

\* The glyph does not fit: go back to the last break opportunity.
LineBreakRewind ==
    /\ pc = "linebreak"
    /\ HasCurrent(runs, glyphIterator)
    /\ ~Fits
    /\ widthSoFar # 0
    /\ BreakValidNow
    /\ BreakLineAt(BreakNow)

\* glyphIterator.current() is null: the pass is over and the emit pass starts
\* with its own cursors.
LineBreakDone ==
    /\ pc = "linebreak"
    /\ ~HasCurrent(runs, glyphIterator)
    /\ pc' = "emit"
    /\ previousBreak' = CursorStart
    /\ glyphIterator' = CursorStart
    /\ UNCHANGED <<inputVars, segVars, runs, breakVars, emitVars, result>>

NextBreak == LineAccept \/ LineBreakAfter \/ LineBreakBefore \/ LineBreakRewind
             \/ LineBreakDone

\* ------------------------------------------------------ ubidi_reorderVisual
\* One pass of the reordering: every maximal stretch of levels >= k is
\* reversed in the index map.
ReverseStretches(map, lv, k) ==
    [i \in 1..Len(lv) |->
        IF lv[i] < k THEN map[i]
        ELSE LET a == CHOOSE x \in 1..i :
                        /\ \A j \in x..i : lv[j] >= k
                        /\ (x = 1 \/ lv[x - 1] < k)
                 b == CHOOSE y \in i..Len(lv) :
                        /\ \A j \in i..y : lv[j] >= k
                        /\ (y = Len(lv) \/ lv[y + 1] < k)
             IN map[a + b - i]]

RECURSIVE ReorderFrom(_, _, _, _)
ReorderFrom(map, lv, k, least) ==
    IF k < least THEN map
    ELSE ReorderFrom(ReverseStretches(map, lv, k), lv, k - 1, least)

\* ubidi_reorderVisual(levels, n, indexMap): indexMap[visual] is the 0-based
\* logical index.  From the highest level down to the lowest odd one, the
\* stretches at that level or above are reversed.
ubidi_reorderVisual(lv) ==
    LET ident == [i \in 1..Len(lv) |-> i - 1]
        lo == CHOOSE m \in {lv[i] : i \in 1..Len(lv)} : \A i \in 1..Len(lv) : m <= lv[i]
        hi == CHOOSE m \in {lv[i] : i \in 1..Len(lv)} : \A i \in 1..Len(lv) : m >= lv[i]
    IN IF lo = hi /\ lo % 2 = 0
       THEN ident
       ELSE ReorderFrom(ident, lv, hi, IF lo % 2 = 0 THEN lo + 1 ELSE lo)

\* ------------------------------------------------------------------- append
\* The glyph of the run written to output slot i.
SourceIndexStorageOrder(level, start, end, i) == start + i

SourceIndex(level, start, end, i) ==
    IF is_LTR(level) THEN start + i ELSE end - 1 - i

\* The pen moved to the left by the glyphs of a right-to-left run.
RECURSIVE PenAtLeftward(_, _, _, _, _)
PenAtLeftward(run, start, end, p, i) ==
    IF i = 0 THEN p
    ELSE LET q == PenAtLeftward(run, start, end, p, i - 1)
             g == run.glyphs[SourceIndex(run.level, start, end, i - 1) + 1]
         IN [x |-> IF is_LTR(run.level) THEN q.x + g.advance.x ELSE q.x - g.advance.x,
             y |-> q.y + g.advance.y]

\* The pen before slot i of an append that starts at p: p moved by the
\* advances of the glyphs written to the slots before.
RECURSIVE PenAt(_, _, _, _, _)
PenAt(run, start, end, p, i) ==
    IF i = 0 THEN p
    ELSE LET q == PenAt(run, start, end, p, i - 1)
             g == run.glyphs[SourceIndex(run.level, start, end, i - 1) + 1]
         IN [x |-> q.x + g.advance.x, y |-> q.y + g.advance.y]

\* append(handler, runInfo, run, start, end, &p): the newRunBuffer call with
\* what is written to its buffer, and p afterwards.  logical is the index of
\* the run and src the glyph taken for each slot.
append(info, logical, run, start, end, p) ==
    LET len == end - start
        glyphOf(i) == run.glyphs[SourceIndex(run.level, start, end, i) + 1]
    IN [call |->
          [info |-> info, font |-> run.font, numGlyphs |-> len,
           utf8Bytes |-> run.utf8End - run.utf8Start,
           logical |-> logical,
           src |-> [i \in 1..len |-> SourceIndex(run.level, start, end, i - 1)],
           glyphs |-> [i \in 1..len |-> glyphOf(i - 1).id],
           positions |-> [i \in 1..len |->
                LET q == PenAt(run, start, end, p, i - 1)
                IN [x |-> q.x + glyphOf(i - 1).offset.x,
                    y |-> q.y - glyphOf(i - 1).offset.y]],
           clusters |-> [i \in 1..len |-> glyphOf(i - 1).cluster]],
        p |-> PenAt(run, start, end, p, len)]

\* --------------------------------------------- shape(): reorder-and-emit pass
\* The metrics of the run of this turn alone, whatever the line had before.
MetricsNowLastRun == Metrics(runs[glyphIterator.run + 1].font)

\* The metrics after "if (previousRunIndex != runIndex) {..}" of a turn.
MetricsNow ==
    LET m == Metrics(runs[glyphIterator.run + 1].font)
    IN IF previousRunIndex # glyphIterator.run
       THEN [ascent |-> Min2(maxAscent, m.ascent),
             descent |-> Max2(maxDescent, m.descent),
             leading |-> Max2(maxLeading, m.leading)]
       ELSE [ascent |-> maxAscent, descent |-> maxDescent, leading |-> maxLeading]

\* nextGlyph == nullptr || nextGlyph->fMustLineBreakBefore
EndOfLine ==
    LET nextIt == next(runs, glyphIterator)
    IN IF HasCurrent(runs, nextIt) THEN current(runs, nextIt).must ELSE TRUE

\* The appends of a line in logical order: logicalFromVisual is not read.
RECURSIVE EmitRunsLogical(_, _, _, _, _, _, _)
EmitRunsLogical(i, numRuns, logicalFromVisual, runIndex, glyphIndex, m, acc) ==
    IF i > numRuns THEN acc
    ELSE LET logicalIndex == previousBreak.run + (i - 1)
             startGlyphIndex == IF logicalIndex = previousBreak.run
                                THEN previousBreak.glyph ELSE 0
             endGlyphIndex == IF logicalIndex = runIndex
                              THEN glyphIndex + 1
                              ELSE runs[logicalIndex + 1].numGlyphs
             run == runs[logicalIndex + 1]
             info == [lineIndex |-> lineIndex, advance |-> run.advance,
                      ascent |-> m.ascent, descent |-> m.descent,
                      leading |-> m.leading]
             out == append(info, logicalIndex, run, startGlyphIndex,
                           endGlyphIndex, acc.p)
         IN EmitRunsLogical(i + 1, numRuns, logicalFromVisual, runIndex, glyphIndex,
                            m, [calls |-> Append(acc.calls, out.call), p |-> out.p])

\* The appends of a line with startGlyphIndex 0 for every run, the run the
\* line starts in too.
RECURSIVE EmitRunsFromZero(_, _, _, _, _, _, _)
EmitRunsFromZero(i, numRuns, logicalFromVisual, runIndex, glyphIndex, m, acc) ==
    IF i > numRuns THEN acc
    ELSE LET logicalIndex == previousBreak.run + logicalFromVisual[i]
             endGlyphIndex == IF logicalIndex = runIndex
                              THEN glyphIndex + 1
                              ELSE runs[logicalIndex + 1].numGlyphs
             run == runs[logicalIndex + 1]
             info == [lineIndex |-> lineIndex, advance |-> run.advance,
                      ascent |-> m.ascent, descent |-> m.descent,
                      leading |-> m.leading]
             out == append(info, logicalIndex, run, 0, endGlyphIndex, acc.p)
         IN EmitRunsFromZero(i + 1, numRuns, logicalFromVisual, runIndex, glyphIndex,
                             m, [calls |-> Append(acc.calls, out.call), p |-> out.p])

\* The appends of a line, from visual index i on: the calls and the pen after.
RECURSIVE EmitRuns(_, _, _, _, _, _, _)
EmitRuns(i, numRuns, logicalFromVisual, runIndex, glyphIndex, m, acc) ==
    IF i > numRuns THEN acc
    ELSE LET logicalIndex == previousBreak.run + logicalFromVisual[i]
             startGlyphIndex == IF logicalIndex = previousBreak.run
                                THEN previousBreak.glyph ELSE 0
             endGlyphIndex == IF logicalIndex = runIndex
                              THEN glyphIndex + 1
                              ELSE runs[logicalIndex + 1].numGlyphs
             run == runs[logicalIndex + 1]
             info == [lineIndex |-> lineIndex, advance |-> run.advance,
                      ascent |-> m.ascent, descent |-> m.descent,
                      leading |-> m.leading]
             out == append(info, logicalIndex, run, startGlyphIndex,
                           endGlyphIndex, acc.p)
         IN EmitRuns(i + 1, numRuns, logicalFromVisual, runIndex, glyphIndex, m,
                     [calls |-> Append(acc.calls, out.call), p |-> out.p])

\* The pen for the line after: the pen p of the line's end without the move
\* back to the origin's x.
NextLineKeepX(p, m) == [x |-> p.x, y |-> p.y + m.descent + m.leading]

\* The pen for the line after, moved down by the descent and not the leading.
NextLineNoLeading(p, m) == [x |-> point.x, y |-> p.y + m.descent]

\* currentPoint.fY += maxDescent + maxLeading; currentPoint.fX = point.fX;
NextLine(p, m) == [x |-> point.x, y |-> p.y + m.descent + m.leading]

\* A turn that ends at "continue": the line goes on after this glyph.
EmitContinue ==
    /\ pc = "emit"
    /\ HasCurrent(runs, glyphIterator)
    /\ ~EndOfLine
    /\ maxAscent' = MetricsNow.ascent
    /\ maxDescent' = MetricsNow.descent
    /\ maxLeading' = MetricsNow.leading
    /\ previousRunIndex' = glyphIterator.run
    /\ glyphIterator' = next(runs, glyphIterator)
    /\ UNCHANGED <<inputVars, pc, segVars, runs, breakVars, previousBreak,
                   lineIndex, currentPoint, sink, result>>

\* A whole turn at the last glyph of a line: the runs of the line are
\* reordered and appended, and the pen moves to the next line.
EmitLine ==
    /\ pc = "emit"
    /\ HasCurrent(runs, glyphIterator)
    /\ EndOfLine
    /\ LET runIndex == glyphIterator.run
           glyphIndex == glyphIterator.glyph
           m == MetricsNow
           numRuns == runIndex - previousBreak.run + 1
           runLevels == [i \in 1..numRuns |-> runs[previousBreak.run + i].level]
           logicalFromVisual == ubidi_reorderVisual(runLevels)
           out == EmitRuns(1, numRuns, logicalFromVisual, runIndex, glyphIndex, m,
                           [calls |-> <<>>,
                            p |-> [x |-> currentPoint.x,
                                   y |-> currentPoint.y - m.ascent]])
       IN /\ sink' = sink \o out.calls
          /\ currentPoint' = NextLine(out.p, m)
    /\ maxAscent' = 0 /\ maxDescent' = 0 /\ maxLeading' = 0
    /\ previousRunIndex' = -1
    /\ lineIndex' = lineIndex + 1
    /\ glyphIterator' = next(runs, glyphIterator)
    /\ previousBreak' = next(runs, glyphIterator)
    /\ UNCHANGED <<inputVars, pc, segVars, runs, breakVars, result>>

\* The return that ends one more line first, as the primary typeface's: the
\* pen moves down although no glyph is left.
EmitDoneAfterEmptyLine ==
    /\ pc = "emit"
    /\ ~HasCurrent(runs, glyphIterator)
    /\ result' = NextLine(currentPoint, Metrics("primary"))
    /\ pc' = "done"
    /\ UNCHANGED <<inputVars, segVars, runs, breakVars, previousBreak,
                   glyphIterator, emitVars>>

\* glyphIterator.current() is null: return currentPoint.
EmitDone ==
    /\ pc = "emit"
    /\ ~HasCurrent(runs, glyphIterator)
    /\ result' = currentPoint
    /\ pc' = "done"
    /\ UNCHANGED <<inputVars, segVars, runs, breakVars, previousBreak,
                   glyphIterator, emitVars>>

NextEmit == EmitContinue \/ EmitLine \/ EmitDone

\* ------------------------------------------------- the layout passes alone
\* The runs a segment loop leaves behind, given glyph by glyph: g[i] is the
\* advance, the offset and the break opportunity of glyph i of the text, cuts
\* the glyphs after which a run ends, lv and tf the level and the typeface of
\* each run.  Every glyph stands for one byte of text and its id is its place
\* in the text.
RunBounds(n, cuts, k) ==
    LET firsts == {1} \cup {c + 1 : c \in cuts}
        a == CHOOSE x \in firsts : Cardinality({y \in firsts : y < x}) = k - 1
        later == {y \in firsts : y > a}
        b == IF later = {} THEN n
             ELSE (CHOOSE y \in later : \A z \in later : y <= z) - 1
    IN <<a, b>>

GivenRuns(g, cuts, lv, tf) ==
    [k \in 1..(Cardinality(cuts) + 1) |->
        LET ab == RunBounds(Len(g), cuts, k)
            glyphs == [i \in 1..(ab[2] - ab[1] + 1) |->
                         [id |-> ab[1] + i - 1, cluster |-> i - 1,
                          offset |-> [x |-> g[ab[1] + i - 1].off, y |-> 0],
                          advance |-> [x |-> g[ab[1] + i - 1].adv, y |-> 0],
                          may |-> g[ab[1] + i - 1].may, must |-> FALSE]]
        IN [utf8Start |-> ab[1] - 1, utf8End |-> ab[2],
            numGlyphs |-> Len(glyphs), font |-> tf[k], level |-> lv[k],
            glyphs |-> glyphs,
            advance |-> [x |-> SumSeq([i \in 1..Len(glyphs) |-> glyphs[i].advance.x]),
                         y |-> 0]]]

\* shape() at the start of the line-break pass with the runs rs.
LayoutEntry(rs) ==
    /\ pc = "linebreak"
    /\ text = <<>> /\ levels = <<>> /\ breaks = {0}
    /\ bidi = BiDiInit /\ script = ScriptInit /\ font = FontInit
    /\ breakIterator = 0
    /\ utf8Start = -1 /\ utf8End = 0
    /\ ends = <<>>
    /\ runs = rs
    /\ fBuffer = <<>> /\ shaped = {} /\ finished = <<>>
    /\ LayoutIdle

\* The line-break pass on up to MaxGlyphs glyphs with advances 0..MaxAdvance
\* and any break opportunities, cut into any left-to-right runs, for every
\* width up to MaxWidth.
InitBreak ==
    /\ width \in 0..MaxWidth
    /\ point = [x |-> 0, y |-> 0]
    /\ \E n \in 1..MaxGlyphs :
         \E g \in [1..n -> [adv : 0..MaxAdvance, off : {0}, may : BOOLEAN]] :
           \E cuts \in SUBSET (1..(n - 1)) :
             LayoutEntry(GivenRuns(g, cuts,
                                   [k \in 1..(Cardinality(cuts) + 1) |-> 0],
                                   [k \in 1..(Cardinality(cuts) + 1) |-> "primary"]))

SpecBreak == InitBreak /\ [][NextBreak]_vars

\* The line-break pass as the loop it is: a turn that can be taken is taken.
\* The width may be negative as well.
InitBreakAnyWidth ==
    /\ width \in {0 - 1} \cup (0..MaxWidth)
    /\ point = [x |-> 0, y |-> 0]
    /\ \E n \in 1..MaxGlyphs :
         \E g \in [1..n -> [adv : 0..MaxAdvance, off : {0}, may : BOOLEAN]] :
           \E cuts \in SUBSET (1..(n - 1)) :
             LayoutEntry(GivenRuns(g, cuts,
                                   [k \in 1..(Cardinality(cuts) + 1) |-> 0],
                                   [k \in 1..(Cardinality(cuts) + 1) |-> "primary"]))

SpecBreakFair == InitBreakAnyWidth /\ [][NextBreak]_vars /\ WF_vars(NextBreak)

NextLayout == NextBreak \/ NextEmit

\* The text "aaaa bbbb cccc" as one left-to-right run of 14 glyphs of advance
\* 1, with break opportunities at the start and before the first b and the
\* first c, laid out at every width up to MaxWordsWidth from either origin.
Origins == {[x |-> 0, y |-> 0], [x |-> 1, y |-> 2]}

WordsGlyphs ==
    [i \in 1..14 |-> [adv |-> 1, off |-> 0, may |-> i \in {1, 6, 11}]]

InitWords ==
    /\ width \in 0..MaxWordsWidth
    /\ point \in Origins
    /\ LayoutEntry(GivenRuns(WordsGlyphs, {}, <<0>>, <<"primary">>))

SpecWords == InitWords /\ [][NextLayout]_vars

\* Both layout passes on up to MaxEmitGlyphs glyphs cut into any runs of
\* levels 0, 1 and 2: right-to-left runs use the Hebrew typeface.  The glyphs
\* have advance 1, or every other one a larger advance, and offset 0 or 1 by
\* their place; either every glyph or none is a break opportunity; the width
\* is small or WideWidth.
BidiLevels == {0, 1, 2}

InitEmit ==
    /\ width \in (1..MaxWidth) \cup {WideWidth}
    /\ point = [x |-> 0, y |-> 0]
    /\ \E n \in 1..MaxEmitGlyphs : \E m \in BOOLEAN : \E a \in {1, MaxAdvance} :
         \E cuts \in SUBSET (1..(n - 1)) :
           \E lv \in [1..(Cardinality(cuts) + 1) -> BidiLevels] :
             LayoutEntry(GivenRuns(
                 [i \in 1..n |-> [adv |-> 1 + (i % 2) * (a - 1), off |-> i % 2,
                                  may |-> m]],
                 cuts, lv,
                 [k \in 1..(Cardinality(cuts) + 1) |->
                     IF is_LTR(lv[k]) THEN "primary" ELSE "hebrewTf"]))

SpecEmit == InitEmit /\ [][NextLayout]_vars

\* ------------------------------------------------------- shape(): all of it
\* An ill-formed UTF-8 sequence in the input, such as the byte C3 before 28.
IllFormed == "bad"

WellFormed(t) == \A i \in 1..Len(t) : t[i] # IllFormed

\* u_strFromUTF8 of BiDiRunIterator::Make: U_INVALID_CHAR_FOUND for an
\* ill-formed text.
u_strFromUTF8(t) == WellFormed(t)

\* ubrk_setUText that rebinds without moving the iterator.
ubrk_setUTextKeepPosition(cur) == cur

\* ubrk_setUText: the iterator is bound to the text and moved to its start.
ubrk_setUText(cur) == 0

\* shape() of the whole model: texts of at most MaxShapeLen code points or
\* ill-formed sequences, and some longer ones, shaped twice on one shaper.
MaxShapeLen == 2

ShapeTexts ==
    SeqsUpTo(CodePoints \cup {IllFormed}, MaxShapeLen)
    \cup {<<"A", IllFormed, "A", "A">>, <<"sp", "alef", "alef">>, <<"A", "alef", "A">>}

\* A failure path that returns a point of its own making.
ReturnZero == [x |-> 0, y |-> 0]

\* return point; on every failure path.
ReturnOnFailure == point

\* The three iterators fail to be made, or the text cannot be bound to the
\* break iterator: return point.  ICU may refuse any text; it refuses an
\* ill-formed one.
SetupFailed ==
    /\ pc = "setup"
    /\ result' = ReturnOnFailure
    /\ pc' = "failed"
    /\ UNCHANGED <<inputVars, segVars, runs, breakVars, previousBreak,
                   glyphIterator, emitVars>>

\* The iterators are inserted and the text is bound to the break iterator.
SetupDone ==
    /\ pc = "setup"
    /\ u_strFromUTF8(text)
    /\ breakIterator' = ubrk_setUText(breakIterator)
    /\ pc' = "segment"
    /\ UNCHANGED <<inputVars, bidi, script, font, utf8Start, utf8End, ends,
                   fBuffer, shaped, runs, breakVars, previousBreak,
                   glyphIterator, emitVars, result>>

\* if (!SkTFitsIn<int>(utf8runLength)) return point;  The model's segment
\* stands for segments of any length.
SegmentTooLong ==
    /\ pc = "shape"
    /\ result' = ReturnOnFailure
    /\ pc' = "failed"
    /\ fBuffer' = <<>>
    /\ UNCHANGED <<turnVars, shaped>>

\* if (!SkTFitsIn<int>(len)) return point;  The model's glyphs stand for any
\* number of them.
TooManyGlyphs ==
    /\ pc = "shape"
    /\ font.hb # NullTf
    /\ \E buffer \in ShapeResults(utf8Start, utf8End, font.hb, fBuffer,
                                  is_LTR(bidi.level)) :
         /\ Len(buffer) # 0
         /\ shaped' = shaped \cup {[from |-> utf8Start, to |-> utf8End,
                                    hb |-> font.hb, buffer |-> buffer]}
    /\ result' = ReturnOnFailure
    /\ pc' = "failed"
    /\ fBuffer' = <<>>
    /\ UNCHANGED turnVars

\* shape() is called again on the same shaper with the same arguments: its
\* locals are new, the members of the shaper are as the call before left them.
ShapeAgain ==
    /\ pc \in {"done", "failed"}
    /\ finished = <<>>
    /\ finished' = Append(finished, [sink |-> sink, result |-> result,
                                     outcome |-> pc, ub |-> font.ub])
    /\ pc' = "setup"
    /\ bidi' = BiDiInit /\ script' = ScriptInit /\ font' = FontInit
    /\ utf8Start' = -1 /\ utf8End' = 0
    /\ ends' = <<>>
    /\ runs' = <<>>
    /\ widthSoFar' = 0 /\ previousBreakValid' = FALSE /\ canAddBreakNow' = FALSE
    /\ previousBreak' = CursorStart
    /\ glyphIterator' = CursorStart
    /\ lineStarts' = <<>>
    /\ maxAscent' = 0 /\ maxDescent' = 0 /\ maxLeading' = 0
    /\ previousRunIndex' = -1 /\ lineIndex' = 0
    /\ currentPoint' = point /\ sink' = <<>>
    /\ result' = "none"
    /\ UNCHANGED <<text, levels, breaks, width, point, breakIterator, fBuffer, shaped>>

NextShape ==
    \/ SetupFailed \/ SetupDone
    \/ NextSeg \/ SegmentTooLong \/ TooManyGlyphs
    \/ NextLayout
    \/ ShapeAgain

InitShape ==
    /\ text \in ShapeTexts
    /\ \E leftToRight \in BOOLEAN :
         levels = IF WellFormed(text) THEN ubidi_setPara(text, leftToRight) ELSE <<>>
    /\ breaks = IF WellFormed(text) THEN LineBreaksOf(text) ELSE {0}
    /\ width \in {1, MaxWidth, WideWidth}
    /\ point = [x |-> 1, y |-> 2]
    /\ pc = "setup"
    /\ bidi = BiDiInit /\ script = ScriptInit /\ font = FontInit
    /\ breakIterator = 0
    /\ utf8Start = -1 /\ utf8End = 0
    /\ ends = <<>>
    /\ runs = <<>>
    /\ fBuffer = <<>> /\ shaped = {} /\ finished = <<>>
    /\ LayoutIdle

SpecShape == InitShape /\ [][NextShape]_vars

\* ------------------------------------------------------------------ claims
N == utf8BytesOf(text)

LastEnd == IF ends = <<>> THEN 0 ELSE ends[Len(ends)]

C3_Contiguous ==
    (pc = "linebreak" /\ N > 0) =>
        /\ runs # <<>>
        /\ runs[1].utf8Start = 0
        /\ runs[Len(runs)].utf8End = N
        /\ \A k \in 1..Len(runs) - 1 : runs[k].utf8End = runs[k + 1].utf8Start

\* The segment the j-th turn of the loop worked on.
SegmentOf(j) == <<IF j = 1 THEN 0 ELSE ends[j - 1], ends[j]>>

\* C3 amended: the runs are in logical order and never overlap
\* (r_k.utf8End <= r_k+1.utf8Start), each run is exactly one of the segments
\* the queue produced, and when the loop has ended with as many runs as
\* segments (no segment was skipped) the runs are contiguous from byte 0 to
\* byte N.
C3_OrderedNoOverlap ==
    /\ \A k \in 1..Len(runs) - 1 : runs[k].utf8End <= runs[k + 1].utf8Start
    /\ \A k \in 1..Len(runs) :
           \E j \in 1..Len(ends) : <<runs[k].utf8Start, runs[k].utf8End>> = SegmentOf(j)
    /\ (pc = "linebreak" /\ N > 0 /\ Len(runs) = Len(ends)) =>
           /\ runs[1].utf8Start = 0
           /\ runs[Len(runs)].utf8End = N
           /\ \A k \in 1..Len(runs) - 1 : runs[k].utf8End = runs[k + 1].utf8Start

\* The loop has ended with two runs and a skipped segment between them.
C3_Witness ==
    /\ pc = "linebreak"
    /\ Len(runs) >= 2
    /\ runs[1].utf8End < runs[2].utf8Start

\* C4: the values endOfCurrentRun() returns after each successful advanceRuns()
\* rise strictly, every segment starts where the one before ended and the first
\* at byte 0, advanceRuns() returns false when and only when the last boundary
\* returned is N, and so when the loop has ended the segments tile [0, N].
C4_BoundariesTile ==
    /\ \A j \in 1..Len(ends) : SegmentOf(j)[1] < SegmentOf(j)[2] /\ ends[j] <= N
    /\ pc = "shape" => <<utf8Start, utf8End>> = SegmentOf(Len(ends))
    /\ (pc = "segment" /\ N > 0) =>
           \A r \in advanceRuns(text, levels, bidi, script, font) :
               r.ok <=> LastEnd < N
    /\ (pc = "linebreak" /\ N > 0) => LastEnd = N

\* The loop has ended after three segments.
C4_Witness ==
    /\ pc = "linebreak"
    /\ Len(ends) >= 3
    /\ LastEnd = N

\* ------------------------------------------------ the lines of a layout
\* The place of a cursor among all glyphs, from 0.
RECURSIVE GlyphsBefore(_, _)
GlyphsBefore(rs, k) == IF k = 0 THEN 0 ELSE GlyphsBefore(rs, k - 1) + rs[k].numGlyphs

Flat(it) == GlyphsBefore(runs, it.run) + it.glyph

TotalGlyphs == GlyphsBefore(runs, Len(runs))

\* The glyph at place i.
GlyphAt(i) ==
    LET k == CHOOSE r \in 1..Len(runs) :
                 GlyphsBefore(runs, r - 1) <= i /\ i < GlyphsBefore(runs, r)
    IN runs[k].glyphs[i - GlyphsBefore(runs, k - 1) + 1]

\* The places where the line-break pass started a line: the first glyph, and
\* every glyph the cursor was set to when a line was broken.
PassLineStarts ==
    {0} \cup {Flat(lineStarts[j]) : j \in 1..Len(lineStarts)}

\* The line that starts at place a: the places up to the next start.
LineFrom(a) ==
    LET later == {b \in PassLineStarts \cup {TotalGlyphs} : b > a}
    IN a..((CHOOSE b \in later : \A c \in later : b <= c) - 1)

PassLines == {LineFrom(a) : a \in {b \in PassLineStarts : b < TotalGlyphs}}

RECURSIVE AdvanceOf(_)
AdvanceOf(places) ==
    IF places = {} THEN 0
    ELSE LET i == CHOOSE x \in places : TRUE
         IN GlyphAt(i).advance.x + AdvanceOf(places \ {i})

MustBreakPlaces == {i \in 0..(TotalGlyphs - 1) : GlyphAt(i).must}

\* C1 as stated: when the line-break pass is over, the advances of the glyphs
\* of every line sum to at most the width, or the line holds one glyph.
C1_WidthOrSingle ==
    pc = "emit" =>
        \A line \in PassLines :
            AdvanceOf(line) <= width \/ Cardinality(line) = 1

\* C1 amended: the advances of the glyphs of every line sum to at most the
\* width, or the advances of all glyphs of the line before its last sum to 0
\* (the last glyph alone does not fit); a line of glyphs with positive
\* advances sums to at most the width or holds one glyph.
C1_WidthOrLastAlone ==
    pc = "emit" =>
        \A line \in PassLines :
            LET last == CHOOSE i \in line : \A j \in line : j <= i
            IN /\ \/ AdvanceOf(line) <= width
                  \/ /\ AdvanceOf(line \ {last}) = 0
                     /\ GlyphAt(last).advance.x >= width
               /\ (\A i \in line : GlyphAt(i).advance.x > 0) =>
                      (AdvanceOf(line) <= width \/ Cardinality(line) = 1)

\* The pass is over with a line of two glyphs that is wider than the width,
\* followed by a line that fits.
C1_Witness ==
    /\ pc = "emit"
    /\ \E line \in PassLines : Cardinality(line) = 2 /\ AdvanceOf(line) > width
    /\ \E line \in PassLines : 0 \notin line /\ AdvanceOf(line) <= width

\* C5: when the line-break pass is over, the starts of the lines after the
\* first rise strictly and lie after the first glyph, and the glyphs with
\* fMustLineBreakBefore are exactly the glyphs at those starts: never the first
\* glyph of the first line, one for each later line, none inside a line.
C5_MustBreakIsLineStart ==
    pc = "emit" =>
        /\ \A j \in 1..Len(lineStarts) :
               Flat(lineStarts[j]) > (IF j = 1 THEN 0 ELSE Flat(lineStarts[j - 1]))
        /\ MustBreakPlaces = PassLineStarts \ {0, TotalGlyphs}
        /\ \A line \in PassLines :
               Cardinality(line \cap MustBreakPlaces) = (IF 0 \in line THEN 0 ELSE 1)

\* The pass is over after a rewind: a line was broken before a glyph the
\* cursor had already passed.
C5_Witness ==
    /\ pc = "emit"
    /\ TotalGlyphs = 3
    /\ MustBreakPlaces = {1}
    /\ 2 \notin PassLineStarts
    /\ AdvanceOf({0, 1}) < width

\* C10: for the 14 glyphs of "aaaa bbbb cccc" at width 10 the line-break pass
\* sets fMustLineBreakBefore on the first c (place 10) and on no other glyph.
C10_BreakBeforeC ==
    (pc = "emit" /\ width = 10) => MustBreakPlaces = {10}

\* -------------------------------------------------- the lines the sink sees
\* The run, from 0, that holds the glyph at place i.
RunOfPlace(i) ==
    (CHOOSE r \in 1..Len(runs) :
        GlyphsBefore(runs, r - 1) <= i /\ i < GlyphsBefore(runs, r)) - 1

\* The line of the glyph at place i by the fMustLineBreakBefore flags: the
\* number of flagged glyphs up to it.
LineOfPlace(i) == Cardinality({j \in MustBreakPlaces : j <= i})

PlacesOfLine(l) == {i \in 0..(TotalGlyphs - 1) : LineOfPlace(i) = l}

\* The newRunBuffer calls of line l, in the order the sink received them.
CallsOfLine(l) == SelectSeq(sink, LAMBDA c : c.info.lineIndex = l)

\* The runs, from 0, with a glyph on line l, and the order the visual reorder
\* of their levels gives.
RunsOfLine(l) == {RunOfPlace(i) : i \in PlacesOfLine(l)}

VisualRunsOfLine(l) ==
    LET first == CHOOSE r \in RunsOfLine(l) : \A q \in RunsOfLine(l) : r <= q
        lv == [k \in 1..Cardinality(RunsOfLine(l)) |-> runs[first + k].level]
        map == ubidi_reorderVisual(lv)
    IN [k \in 1..Len(lv) |-> first + map[k]]

\* C6: the line indices of the newRunBuffer calls start at 0, never decrease
\* and never skip a value, and the calls of every emitted line name the runs
\* in the order ubidi_reorderVisual gives for the levels of exactly the runs
\* with glyphs on that line.
C6_LinesThenVisualOrder ==
    pc \in {"emit", "done"} =>
        /\ sink # <<>> => sink[1].info.lineIndex = 0
        /\ \A j \in 1..(Len(sink) - 1) :
               sink[j + 1].info.lineIndex - sink[j].info.lineIndex \in {0, 1}
        /\ \A l \in 0..(lineIndex - 1) :
               [k \in 1..Len(CallsOfLine(l)) |-> CallsOfLine(l)[k].logical]
                   = VisualRunsOfLine(l)
        /\ pc = "done" => lineIndex = Cardinality(MustBreakPlaces) + 1

\* All is emitted: two lines, the second with two runs of level 1 sent in the
\* order later run, earlier run.
C6_Witness ==
    /\ pc = "done"
    /\ lineIndex = 2
    /\ Len(CallsOfLine(1)) = 2
    /\ [k \in 1..2 |-> runs[CallsOfLine(1)[k].logical + 1].level] = <<1, 1>>
    /\ CallsOfLine(1)[1].logical = CallsOfLine(1)[2].logical + 1

\* The ids written by the calls of line l, one after the other.
RECURSIVE IdsOf(_)
IdsOf(calls) == IF calls = <<>> THEN <<>> ELSE Head(calls).glyphs \o IdsOf(Tail(calls))

\* C7: every newRunBuffer call holds the glyphs its run has on the call's line,
\* in storage order for an even level and in exactly reversed storage order for
\* an odd one; runs of levels 0, 1, 0 holding glyphs 1 | 2, 3 | 4 on one line
\* reach the sink as 1, 3, 2, 4 while the second run still stores 2, 3.
C7_ReversedForOddLevel ==
    pc \in {"emit", "done"} =>
        /\ \A j \in 1..Len(sink) :
             LET c == sink[j]
                 run == runs[c.logical + 1]
                 ids == {i + 1 : i \in {q \in PlacesOfLine(c.info.lineIndex) :
                                           RunOfPlace(q) = c.logical}}
                 lo == CHOOSE x \in ids : \A y \in ids : x <= y
                 hi == CHOOSE x \in ids : \A y \in ids : x >= y
             IN /\ c.numGlyphs = Cardinality(ids)
                /\ Len(c.glyphs) = c.numGlyphs
                /\ \A i \in 1..c.numGlyphs :
                       c.glyphs[i] = IF is_LTR(run.level) THEN lo + i - 1 ELSE hi - i + 1
        /\ (/\ pc = "done" /\ lineIndex = 1 /\ Len(runs) = 3
            /\ [k \in 1..3 |-> runs[k].level] = <<0, 1, 0>>
            /\ [k \in 1..3 |-> runs[k].numGlyphs] = <<1, 2, 1>>)
           => /\ IdsOf(sink) = <<1, 3, 2, 4>>
              /\ [i \in 1..2 |-> runs[2].glyphs[i].id] = <<2, 3>>

\* Runs of levels 0, 1, 0 with 1, 2 and 1 glyphs were emitted on one line.
C7_Witness ==
    /\ pc = "done" /\ lineIndex = 1 /\ Len(runs) = 3
    /\ [k \in 1..3 |-> runs[k].level] = <<0, 1, 0>>
    /\ [k \in 1..3 |-> runs[k].numGlyphs] = <<1, 2, 1>>

\* The pen x of the glyphs of line l in the order they were written: the
\* position written less the offset of the glyph.
RECURSIVE PensOf(_)
PensOf(calls) ==
    IF calls = <<>> THEN <<>>
    ELSE LET c == Head(calls)
         IN [i \in 1..c.numGlyphs |->
                c.positions[i].x - GlyphAt(c.glyphs[i] - 1).offset.x]
            \o PensOf(Tail(calls))

\* C8: in every emitted line the pen x of the glyphs, in the order they were
\* written across the runs of the line, starts at the origin's x and never
\* decreases (the advances are not negative).
C8_PenNeverGoesBack ==
    pc \in {"emit", "done"} =>
        \A l \in 0..(lineIndex - 1) :
            LET pens == PensOf(CallsOfLine(l))
            IN /\ pens # <<>>
               /\ pens[1] = point.x
               /\ \A i \in 1..(Len(pens) - 1) : pens[i] <= pens[i + 1]

\* After another line, a line with a left-to-right run and then a
\* right-to-left run was emitted, and some call wrote two glyphs of a
\* right-to-left run.
C8_Witness ==
    /\ pc = "done"
    /\ \E l \in 1..(lineIndex - 1) :
         /\ Len(CallsOfLine(l)) = 2
         /\ is_LTR(runs[CallsOfLine(l)[1].logical + 1].level)
         /\ ~is_LTR(runs[CallsOfLine(l)[2].logical + 1].level)
    /\ \E j \in 1..Len(sink) :
         sink[j].numGlyphs = 2 /\ ~is_LTR(runs[sink[j].logical + 1].level)

\* C9: for one left-to-right run, at any width, the advances of the RunInfo of
\* all newRunBuffer calls of a shape call sum to the advances of all glyphs.
C9_RunAdvanceSum ==
    pc = "done" =>
        SumSeq([j \in 1..Len(sink) |-> sink[j].info.advance.x])
            = AdvanceOf(0..(TotalGlyphs - 1))

\* ---------------------------------------------------------- the value returned
\* shape() returned after emitting one left-to-right run on one line.
OneRunOneLine ==
    /\ pc = "done"
    /\ Len(runs) = 1 /\ is_LTR(runs[1].level)
    /\ lineIndex = 1

\* C11 as stated: for a left-to-right input shaped to one run on one line,
\* shape returns the origin's x plus the sum of the glyph x-advances, and the
\* origin's y.
C11_ReturnsEndOfLine ==
    OneRunOneLine =>
        result = [x |-> point.x + AdvanceOf(0..(TotalGlyphs - 1)), y |-> point.y]

\* C11 amended: for a left-to-right input shaped to one run on one line, shape
\* returns the start of the line after: the origin's x, and the origin's y
\* moved down by the descent, the leading and the negated ascent of the run's
\* font; the pen of the last glyph written is the origin's x plus the advances
\* of the glyphs before it.
C11_ReturnsNextLineStart ==
    OneRunOneLine =>
        LET m == Metrics(runs[1].font)
            n == TotalGlyphs
        IN /\ result = [x |-> point.x,
                        y |-> point.y - m.ascent + m.descent + m.leading]
           /\ Len(sink) = 1
           /\ sink[1].positions[n].x - GlyphAt(n - 1).offset.x
                  = point.x + AdvanceOf(0..(n - 2))
           /\ sink[1].positions[n].y + GlyphAt(n - 1).offset.y = point.y - m.ascent

\* The fourteen glyphs were emitted on one line from an origin that is not 0, 0.
C11_Witness ==
    /\ OneRunOneLine
    /\ TotalGlyphs = 14
    /\ point = [x |-> 1, y |-> 2]
    /\ width > 14

\* ------------------------------------------------------------ failure paths
\* C12: whenever shape() has returned on a failure path (the iterators or the
\* break iterator could not be set up, a segment was too long or had too many
\* glyphs) it has returned exactly the caller's origin and the sink has
\* received no newRunBuffer call, whatever runs were shaped before.
C12_FailureReturnsOrigin ==
    pc = "failed" => (result = point /\ sink = <<>>)

\* shape() gave up at the second segment, after the first was shaped to a run.
C12_Witness ==
    /\ pc = "failed"
    /\ Len(runs) = 1
    /\ Len(ends) = 2
    /\ result = [x |-> 1, y |-> 2]

\* ------------------------------------------------------- the fallback typeface
\* C13: FontRunIterator::consume never asks a null current typeface whether it
\* has a code point, so no call of shape() dies in it: after the font manager
\* returned null the iterator goes on to the end of the text.
C13_NeverThroughNull ==
    ~font.ub /\ pc # "crashed"

\* ---------------------------------------------------------- ill-formed input
\* C14: shape() does not fail on a text with an ill-formed UTF-8 sequence: it
\* goes past the setup, and once it has returned it has emitted runs.
C14_IllFormedIsShaped ==
    ~WellFormed(text) =>
        /\ pc # "failed"
        /\ pc = "done" => sink # <<>>

\* ------------------------------------------------------------ the second call
\* C15: a second call of shape() on the same shaper with the same arguments,
\* ending the way the first did and like it never through a null typeface,
\* has made the same newRunBuffer calls with the same contents and returns the
\* same point: what the first call left in the buffer and the break iterator
\* changes nothing.
C15_SecondCallSame ==
    (/\ Len(finished) = 1
     /\ pc \in {"done", "failed"}
     /\ pc = finished[1].outcome
     /\ ~font.ub /\ ~finished[1].ub)
    => (sink = finished[1].sink /\ result = finished[1].result)

\* Both calls are over; the first left the break iterator at the end of the
\* text and the second, like the first, broke the line at a break opportunity
\* in the middle of it.
C15_Witness ==
    /\ Len(finished) = 1
    /\ pc = "done" /\ finished[1].outcome = "done"
    /\ text = <<"sp", "alef", "alef">>
    /\ Len(runs) = 2 /\ runs[2].numGlyphs = 2
    /\ breakIterator = 5
    /\ Len(sink) = 2
    /\ sink[2].info.lineIndex = 1 /\ sink[2].numGlyphs = 2

\* -------------------------------------------------------------- line metrics
\* The least and the greatest of a non-empty set of numbers.
Least(S) == CHOOSE x \in S : \A y \in S : x <= y
Greatest(S) == CHOOSE x \in S : \A y \in S : x >= y

\* C16: the ascent, descent and leading of every newRunBuffer call are the
\* least ascent, the greatest descent and the greatest leading of the fonts of
\* exactly the runs with a glyph on the call's line; so they are the same for
\* all calls of a line, a run on other lines only does not count, and a run
\* that goes on from the line before counts again.
C16_MetricsOfRunsOnLine ==
    pc \in {"emit", "done"} =>
        \A j \in 1..Len(sink) :
            LET ms == {Metrics(runs[r + 1].font) :
                          r \in RunsOfLine(sink[j].info.lineIndex)}
            IN /\ sink[j].info.ascent = Least({m.ascent : m \in ms})
               /\ sink[j].info.descent = Greatest({m.descent : m \in ms})
               /\ sink[j].info.leading = Greatest({m.leading : m \in ms})

\* A right-to-left run in the Hebrew typeface ended the first line, went on
\* alone on the second and was followed by a line of the primary typeface
\* only: the second line has the Hebrew metrics, the third the primary ones.
\* All three lines are emitted.
C16_Witness ==
    /\ pc = "done"
    /\ lineIndex >= 3
    /\ \E j \in 1..(Len(sink) - 2) :
         /\ sink[j].info.lineIndex = 0 /\ sink[j + 1].info.lineIndex = 1
         /\ sink[j].logical = sink[j + 1].logical
         /\ sink[j].font = "hebrewTf"
         /\ Len(CallsOfLine(1)) = 1
         /\ sink[j + 1].info.ascent = -3
         /\ sink[j + 2].info.lineIndex = 2
         /\ sink[j + 2].info.ascent = -2 /\ sink[j + 2].info.leading = 0

\* ---------------------------------------------------- the queue of iterators
\* C17: in every state of the segment loop, if an iterator with the least end
\* is at its end then all three are, with end N; if advanceRuns() goes on,
\* no iterator it will consume (end at or before the least end) is at its end,
\* and every iterator it consumes has a strictly greater end afterwards while
\* the others are left alone.
C17_ConsumeOnlyBeforeEnd ==
    pc \in {"segment", "shape"} =>
        LET least == endOfCurrentRun(bidi, script, font)
            peek == PeekAtEnd(text, bidi, script, font)
        IN /\ TRUE \in peek =>
                 /\ BiDiAtEnd(text, bidi) /\ ScriptAtEnd(text, script)
                 /\ FontAtEnd(text, font)
                 /\ bidi.end = N /\ script.cur = N /\ font.cur = N
           /\ FALSE \in peek =>
                 /\ bidi.end <= least => ~BiDiAtEnd(text, bidi)
                 /\ script.cur <= least => ~ScriptAtEnd(text, script)
                 /\ font.cur <= least => ~FontAtEnd(text, font)
           /\ (pc = "segment" /\ FALSE \in peek) =>
                 \A r \in advanceRuns(text, levels, bidi, script, font) :
                    r.ok =>
                      /\ IF bidi.end <= least
                         THEN r.bidi.end > bidi.end ELSE r.bidi = bidi
                      /\ IF script.cur <= least
                         THEN r.script.cur > script.cur ELSE r.script = script
                      /\ IF font.cur <= least
                         THEN r.font.cur > font.cur ELSE r.font = font

\* The second advanceRuns() is about to consume the font iterator alone: the
\* other two are at the end of a text with an emoji, the font iterator is not.
C17_Witness ==
    /\ pc = "segment"
    /\ Len(ends) = 1
    /\ font.cur < N
    /\ BiDiAtEnd(text, bidi) /\ bidi.end = N /\ bidi.pos < N
    /\ ScriptAtEnd(text, script)

\* ------------------------------------------- the runs of each iterator alone
\* The ends of the runs an iterator reports when it is consumed to its end on
\* its own.
RECURSIVE BiDiBoundaries(_, _, _)
BiDiBoundaries(t, lv, it) ==
    IF BiDiAtEnd(t, it) THEN {}
    ELSE LET n == BiDiConsume(t, lv, it)
         IN {n.end} \cup BiDiBoundaries(t, lv, n)

RECURSIVE ScriptBoundaries(_, _)
ScriptBoundaries(t, it) ==
    IF ScriptAtEnd(t, it) THEN {}
    ELSE LET n == ScriptConsume(t, it)
         IN {n.cur} \cup ScriptBoundaries(t, n)

\* The font iterator can go more than one way after a call through a null
\* typeface: the set of the sets of ends it can report.
RECURSIVE FontBoundarySets(_, _)
FontBoundarySets(t, it) ==
    IF FontAtEnd(t, it) THEN {{}}
    ELSE UNION {IF n.crashed THEN {{}}
                ELSE {{n.cur} \cup F : F \in FontBoundarySets(t, n)} :
                   n \in FontConsume(t, it)}

\* The code points that start in [from, to).
CodePointsIn(t, from, to) ==
    {i \in 1..Len(t) : from <= StartOf(t, i) /\ StartOf(t, i) < to}

\* C18: the ends the queue has reported are the run ends of the three
\* iterators, up to the last one reported; after a successful advanceRuns() the
\* segment is not empty, lies before every iterator's end, holds no run end of
\* any iterator inside it, and each of its code points has the level, a script
\* and a typeface the iterators report; the first advanceRuns() leaves every
\* iterator as one consume() of its initial state does.
C18_SegmentsAreRunIntersections ==
    pc \in {"segment", "shape", "linebreak"} =>
        LET B == BiDiBoundaries(text, levels, BiDiInit)
            S == ScriptBoundaries(text, ScriptInit)
            Ends == {ends[i] : i \in DOMAIN ends}
        IN /\ pc = "shape" =>
                 /\ utf8Start < utf8End
                 /\ utf8End = ends[Len(ends)]
                 /\ utf8End = endOfCurrentRun(bidi, script, font)
           /\ pc = "linebreak" => utf8End = N
           /\ \E F \in FontBoundarySets(text, FontInit) :
                 /\ Ends = {e \in B \cup S \cup F : e <= utf8End}
                 /\ bidi.end \in B \cup {0}
                 /\ script.cur \in S \cup {0}
                 /\ font.cur \in F \cup {0}
                 /\ pc = "shape" =>
                       \A e \in B \cup S \cup F : ~(utf8Start < e /\ e < utf8End)
           /\ pc = "shape" =>
                 \A i \in CodePointsIn(text, utf8Start, utf8End) :
                    /\ levels[i] = bidi.level
                    /\ hb_unicode_script(text[i]) \in
                           {script.script, "COMMON", "INHERITED"}
                    /\ font.current # NullTf => charsToGlyphs(font.current, text[i])
           /\ (pc = "shape" /\ Len(ends) = 1) =>
                 /\ bidi = BiDiConsume(text, levels, BiDiInit)
                 /\ script = ScriptConsume(text, ScriptInit)
                 /\ font \in FontConsume(text, FontInit)

\* The second segment lies strictly inside the run of the bidi iterator and
\* that of the script iterator: only the font iterator ends with it.
C18_Witness ==
    /\ pc = "shape"
    /\ Len(ends) = 2
    /\ 0 < utf8Start
    /\ font.cur = utf8End
    /\ utf8End < bidi.end
    /\ utf8End < script.cur
    /\ ~font.ub

\* ------------------------------------------------------------ the script runs
\* The runs the script iterator reports from state it on: where each starts
\* and ends and the script it reports.
RECURSIVE ScriptRuns(_, _)
ScriptRuns(t, it) ==
    IF ScriptAtEnd(t, it) THEN {}
    ELSE LET n == ScriptConsume(t, it)
         IN {[from |-> it.cur, to |-> n.cur, script |-> n.script]}
            \cup ScriptRuns(t, n)

Unresolved == {"COMMON", "INHERITED"}

\* C19: the script iterator is in its initial state or at the end of one of
\* the script runs of the text; of the runs consumed so far, none reports
\* INHERITED, each code point of a run has the run's script or COMMON or
\* INHERITED, a run that ends before the end of the text reports a script that
\* is neither COMMON nor INHERITED and is followed by a code point whose script
\* is neither of these nor the run's, and the run that follows a run reports
\* another script.
C19_ScriptRunsAreMaximal ==
    pc \in {"segment", "shape", "linebreak"} =>
        LET all == ScriptRuns(text, ScriptInit)
            consumed == {r \in all : r.to <= script.cur}
        IN /\ \/ script = ScriptInit
              \/ \E r \in all : r.to = script.cur /\ r.script = script.script
           /\ script.script # "INHERITED"
           /\ \A r \in consumed :
                 /\ r.script # "INHERITED"
                 /\ r.from < r.to
                 /\ \A i \in CodePointsIn(text, r.from, r.to) :
                       hb_unicode_script(text[i]) \in {r.script} \cup Unresolved
                 /\ r.to < N =>
                       LET s == hb_unicode_script(text[CpAt(text, r.to)])
                       IN /\ s \notin Unresolved
                          /\ r.script \notin Unresolved
                          /\ s # r.script
                 /\ \A q \in consumed : q.from = r.to => q.script # r.script

\* A space, a Latin letter and a Hebrew letter: the first run took the script
\* of the letter after the space, the second one is consumed as well.
C19_Witness ==
    /\ pc = "shape"
    /\ Len(text) = 3 /\ text[1] = "sp"
    /\ script.script = "HEBREW" /\ script.cur = N
    /\ [from |-> 0, to |-> 2, script |-> "LATIN"] \in ScriptRuns(text, ScriptInit)

\* -------------------------------------------------------------- the font runs
\* The runs the font iterator can report from state it on: where each starts
\* and ends, and the iterator before and after the consume() that made it.
RECURSIVE FontRuns(_, _)
FontRuns(t, it) ==
    IF FontAtEnd(t, it) THEN {}
    ELSE UNION {{[from |-> it.cur, to |-> n.cur, before |-> it, after |-> n]}
                \cup (IF n.crashed THEN {} ELSE FontRuns(t, n)) :
                   n \in FontConsume(t, it)}

\* The font manager has a typeface with the character for every character of
\* the text the primary typeface lacks.
ProviderCovers(t) ==
    \A i \in 1..Len(t) :
        ~charsToGlyphs("primary", t[i]) =>
            /\ matchFamilyStyleCharacter(t[i]) # NullTf
            /\ charsToGlyphs(matchFamilyStyleCharacter(t[i]), t[i])

\* C20: when the font manager has a typeface for every character the primary
\* lacks, the font iterator is in its initial state or as one of the font runs
\* of the text left it, and for every run consumed so far: if the typeface is
\* the primary, the primary has every code point of the run; otherwise it is
\* the cached fallback, the primary has no code point of the run and the
\* fallback has them all; the cached fallback after the run is the font
\* manager's answer for the first code point if neither the primary nor the
\* fallback cached before has it, and the fallback cached before otherwise.
C20_FontRunsAreCovered ==
    (pc \in {"segment", "shape", "linebreak"} /\ ProviderCovers(text)) =>
        LET all == FontRuns(text, FontInit)
        IN /\ ~font.ub
           /\ font = FontInit \/ \E r \in all : r.after = font
           /\ \A r \in {q \in all : q.to <= font.cur} :
                 LET u == text[CpAt(text, r.from)]
                     cps == CodePointsIn(text, r.from, r.to)
                     asked == /\ ~charsToGlyphs("primary", u)
                              /\ IF r.before.fallback = NullTf THEN TRUE
                                 ELSE ~charsToGlyphs(r.before.fallback, u)
                 IN /\ r.from < r.to
                    /\ IF r.after.current = "primary"
                       THEN \A i \in cps : charsToGlyphs("primary", text[i])
                       ELSE /\ r.after.current # NullTf
                            /\ r.after.current = r.after.fallback
                            /\ \A i \in cps :
                                  /\ ~charsToGlyphs("primary", text[i])
                                  /\ charsToGlyphs(r.after.current, text[i])
                    /\ r.after.fallback = IF asked THEN matchFamilyStyleCharacter(u)
                                          ELSE r.before.fallback

\* A Hebrew letter, an emoji and a Hebrew letter: the font manager was asked
\* three times, each answer took the place of the one before.
C20_Witness ==
    /\ pc = "shape"
    /\ ProviderCovers(text)
    /\ Len(ends) = 3
    /\ text[2] = "emoji"
    /\ font.cur = N
    /\ font.current = "hebrewTf" /\ font.fallback = "hebrewTf"

\* ------------------------------------------------- where a line is broken
\* The place where the current line of the line-break pass started.
LineStartNow ==
    IF lineStarts = <<>> THEN 0 ELSE Flat(lineStarts[Len(lineStarts)])

\* C21: in every turn of the line-break pass that breaks a line at a glyph g
\* that does not fit, the next line starts after the first glyph of the
\* current one; with widthSoFar # 0 it starts at the latest glyph with
\* fMayLineBreakBefore after the first glyph of the line and at or before g,
\* and at g when there is none; with widthSoFar = 0 it starts after g.
C21_BreakAtLatestOpportunity ==
    [][(pc = "linebreak" /\ lineStarts' # lineStarts) =>
          LET g == Flat(glyphIterator)
              opportunities == {p \in (LineStartNow + 1)..g : GlyphAt(p).may}
              to == Flat(lineStarts'[Len(lineStarts')])
          IN /\ ~Fits
             /\ lineStarts' = Append(lineStarts, glyphIterator')
             /\ to > LineStartNow
             /\ widthSoFar # 0 =>
                   to = IF opportunities # {} THEN Greatest(opportunities) ELSE g
             /\ widthSoFar = 0 => to = g + 1]_vars

\* The first line was broken at its third glyph, which did not fit and is a
\* break opportunity, as the second glyph is; the first two glyphs fit and are
\* not both of advance 0.
C21_Witness ==
    /\ pc = "linebreak"
    /\ TotalGlyphs = 3
    /\ GlyphAt(1).may /\ GlyphAt(2).may
    /\ lineStarts # <<>> /\ Flat(lineStarts[1]) = 2
    /\ AdvanceOf({0, 1}) # 0
    /\ AdvanceOf({0, 1}) < width
    /\ AdvanceOf({0, 1, 2}) >= width

\* ------------------------------------------------ the line-break pass ends
\* C22: the line-break pass ends for every glyph sequence and every width, a
\* width of 0 or less, glyphs of advance 0 and glyphs wider than the width
\* included; while it runs the cursor is never before the start of the current
\* line, and every line it has started begins after the start of the line
\* before, so every line holds a glyph.
C22_LineBreakPassEnds ==
    /\ <>(pc = "emit")
    /\ [](pc = "linebreak" =>
            /\ Flat(glyphIterator) >= LineStartNow
            /\ Flat(glyphIterator) <= TotalGlyphs
            /\ \A j \in 1..Len(lineStarts) :
                  Flat(lineStarts[j]) > (IF j = 1 THEN 0 ELSE Flat(lineStarts[j - 1])))

\* The pass is over at a negative width: a glyph of advance 0, one of the
\* largest advance and a third one, each on a line of its own.
C22_Witness ==
    /\ pc = "emit"
    /\ width < 0
    /\ TotalGlyphs = 3
    /\ GlyphAt(0).advance.x = 0
    /\ GlyphAt(1).advance.x = MaxAdvance
    /\ Len(lineStarts) = 3

\* ------------------------------------------------ every glyph is written once
\* The slots of the newRunBuffer calls that hold glyph i of run k (both from 0).
SlotsOf(k, i) ==
    {<<j, n>> \in (1..Len(sink)) \X (1..MaxEmitGlyphs) :
        /\ n <= sink[j].numGlyphs
        /\ sink[j].logical = k
        /\ sink[j].src[n] = i}

\* C23: every newRunBuffer call holds at least one glyph and a range of glyphs
\* of its run without gaps; a glyph of a line that has been emitted is in
\* exactly one slot of one call, and that call has the index of the glyph's
\* line, the number of glyphs with fMustLineBreakBefore up to and including
\* it; a glyph of a line not yet emitted is in no call; when shape() has
\* returned every glyph of every run has been written.
C23_AppendsPartitionGlyphs ==
    pc \in {"emit", "done"} =>
        /\ \A j \in 1..Len(sink) :
              LET c == sink[j]
                  written == {c.src[n] : n \in 1..c.numGlyphs}
              IN /\ c.numGlyphs > 0
                 /\ Len(c.src) = c.numGlyphs
                 /\ written = Least(written)..Greatest(written)
                 /\ Cardinality(written) = c.numGlyphs
        /\ \A k \in 0..(Len(runs) - 1) : \A i \in 0..(runs[k + 1].numGlyphs - 1) :
              LET place == GlyphsBefore(runs, k) + i
              IN IF place < Flat(previousBreak) \/ pc = "done"
                 THEN /\ Cardinality(SlotsOf(k, i)) = 1
                      /\ \A s \in SlotsOf(k, i) :
                            sink[s[1]].info.lineIndex = LineOfPlace(place)
                 ELSE SlotsOf(k, i) = {}
        /\ pc = "done" =>
              SumSeq([j \in 1..Len(sink) |-> sink[j].numGlyphs]) = TotalGlyphs

\* shape() has returned; a run of three glyphs was written by two calls, its
\* first glyph on a line with the run before it and the others on the next.
C23_Witness ==
    /\ pc = "done"
    /\ Len(runs) = 2 /\ runs[2].numGlyphs = 3
    /\ Len(sink) = 3
    /\ sink[2].logical = 1 /\ sink[2].info.lineIndex = 0 /\ sink[2].numGlyphs = 1
    /\ sink[3].logical = 1 /\ sink[3].info.lineIndex = 1 /\ sink[3].numGlyphs = 2

\* ------------------------------------------------------- the pen between lines
\* The metrics of line l: those its newRunBuffer calls were given.
LineMetrics(l) == CallsOfLine(l)[1].info

\* The height of the lines before line l.
RECURSIVE HeightBefore(_)
HeightBefore(l) ==
    IF l = 0 THEN 0
    ELSE HeightBefore(l - 1) - LineMetrics(l - 1).ascent
         + LineMetrics(l - 1).descent + LineMetrics(l - 1).leading

\* The y the glyphs of line l were written at (their y offsets are 0).
BaselineOf(l) == CallsOfLine(l)[1].positions[1].y

\* C24: between lines and when shape() has returned, currentPoint has the
\* origin's x and the origin's y plus, for every line emitted, the negated
\* ascent, the descent and the leading of that line; shape() returns that
\* point; the glyphs of every line are written at one y, the origin's plus the
\* heights of the lines before less the line's ascent, and that y is never
\* less than the y of the line before.
C24_ReturnsPenAfterLastLine ==
    pc \in {"emit", "done"} =>
        /\ currentPoint = [x |-> point.x, y |-> point.y + HeightBefore(lineIndex)]
        /\ pc = "done" =>
              /\ result = currentPoint
              /\ runs # <<>> => lineIndex > 0
        /\ \A l \in 0..(lineIndex - 1) :
              /\ \A j \in 1..Len(sink) : \A n \in 1..sink[j].numGlyphs :
                    sink[j].info.lineIndex = l =>
                        sink[j].positions[n].y = BaselineOf(l)
              /\ BaselineOf(l) = point.y + HeightBefore(l) - LineMetrics(l).ascent
              /\ l > 0 => BaselineOf(l) >= BaselineOf(l - 1)

\* shape() has returned after three lines, each of one run: the primary
\* typeface, the Hebrew one and the primary one again.
C24_Witness ==
    /\ pc = "done"
    /\ lineIndex = 3 /\ Len(runs) = 3
    /\ runs[2].font = "hebrewTf"
    /\ point = [x |-> 1, y |-> 2]
    /\ result = [x |-> 1, y |-> 14]

\* ---------------------------------------------------- the break opportunities
\* The byte offsets in the text of the glyphs of the runs stored so far.
TestedClusters ==
    UNION {{runs[k].utf8Start + runs[k].glyphs[i].cluster :
               i \in 1..runs[k].numGlyphs} : k \in 1..Len(runs)}

\* C25: in every run stored, a glyph has fMayLineBreakBefore exactly when its
\* cluster differs from that of the glyph before it in the run (or it is the
\* first) and the run's utf8Start plus its cluster is a boundary of the break
\* iterator; the break iterator is at the start of the text while no glyph was
\* tested and then at the first boundary at or after the greatest offset
\* tested, whatever runs and skipped segments lie between; it never moves
\* back.
C25_MayBreakIffBoundary ==
    /\ [](pc \in {"segment", "shape", "linebreak"} =>
            /\ \A k \in 1..Len(runs) : \A i \in 1..runs[k].numGlyphs :
                  LET g == runs[k].glyphs[i]
                  IN g.may <=>
                        /\ (i = 1 \/ runs[k].glyphs[i - 1].cluster # g.cluster)
                        /\ runs[k].utf8Start + g.cluster \in breaks
            /\ breakIterator =
                  IF TestedClusters = {} THEN 0
                  ELSE Least({b \in breaks : b >= Greatest(TestedClusters)}))
    /\ [][breakIterator' >= breakIterator]_vars

\* The loop has ended: the emoji that starts the text was skipped for lack of
\* a shaping font, and the run after it holds two glyphs of one cluster, the
\* first a break opportunity at the boundary after the emoji, the second not.
C25_Witness ==
    /\ pc = "linebreak"
    /\ Len(ends) = 2 /\ Len(runs) = 1
    /\ runs[1].utf8Start = 4 /\ runs[1].numGlyphs = 2
    /\ runs[1].glyphs[1].may /\ ~runs[1].glyphs[2].may
    /\ breakIterator = 4

\* ------------------------------------------------------ the cursor stays in range
\* The cursor is on a glyph of a run.
OnGlyph(it) ==
    /\ it.run < Len(runs)
    /\ it.glyph < runs[it.run + 1].numGlyphs

\* The cursor is past the last glyph, as next() leaves it there.
PastLastGlyph(it) == it.run = Len(runs) /\ it.glyph = 0

AllRunsHaveGlyphs ==
    \A k \in 1..Len(runs) :
        runs[k].numGlyphs >= 1 /\ Len(runs[k].glyphs) = runs[k].numGlyphs

\* C26 as stated: every run stored has a glyph, and in both later passes every
\* call of current() and of next() is made with the cursor on a glyph of a
\* run, the call of current() that ends a pass too.
C26_CursorAlwaysOnGlyph ==
    /\ AllRunsHaveGlyphs
    /\ pc \in {"linebreak", "emit"} => OnGlyph(glyphIterator)

\* C26 amended: every run stored has a glyph; in both later passes the cursor
\* current() is called with, and previousBreak, are on a glyph of a run or at
\* run index = number of runs with glyph index 0, where current() returns null
\* and reads no run; next() is called only after current() returned a glyph,
\* so with the cursor on a glyph, and leaves the cursor on a glyph or past the
\* last one.
C26_CursorOnGlyphOrPastLast ==
    /\ AllRunsHaveGlyphs
    /\ pc \in {"linebreak", "emit"} =>
          /\ OnGlyph(glyphIterator) \/ PastLastGlyph(glyphIterator)
          /\ OnGlyph(previousBreak) \/ PastLastGlyph(previousBreak)
          /\ HasCurrent(runs, glyphIterator) =>
                /\ OnGlyph(glyphIterator)
                /\ LET to == next(runs, glyphIterator)
                   IN OnGlyph(to) \/ PastLastGlyph(to)

\* The line-break pass is at its last call of current(), past the last glyph
\* of two runs, after it went back to a break opportunity that had fit.
C26_Witness ==
    /\ pc = "linebreak"
    /\ Len(runs) = 2
    /\ PastLastGlyph(glyphIterator)
    /\ lineStarts # <<>>
    /\ OnGlyph(lineStarts[1])
    /\ AdvanceOf(0..Flat(lineStarts[1])) < width

\* ------------------------------------------------------------- nothing to emit
\* C27: when the segment loop has ended without storing a run, for an empty
\* text or because every segment was skipped, the later passes break no line,
\* start no line and call newRunBuffer never, and shape() returns exactly the
\* caller's origin.
C27_NoRunsNothingEmitted ==
    (pc \in {"linebreak", "emit", "done"} /\ runs = <<>>) =>
        /\ sink = <<>>
        /\ lineStarts = <<>>
        /\ lineIndex = 0
        /\ currentPoint = point
        /\ pc = "done" => result = point

\* shape() has returned without a run: of the two segments of the text one
\* had no shaping font and the other was shaped to no glyphs.
C27_Witness ==
    /\ pc = "done"
    /\ runs = <<>>
    /\ Len(ends) = 2
    /\ shaped # {}
    /\ \E i \in 1..Len(text) : text[i] = "emoji"
    /\ result = [x |-> 1, y |-> 2]

====
